---------------------------- MODULE Spec2Model ----------------------------
(***************************************************************************)
(* Retrieval core of ohara-ai-backend (src/server.js, first variant, lines *)
(* 1-207; the second variant's retrieval code is textually identical).     *)
(*                                                                         *)
(* A string is modelled as a sequence of characters (one-character TLA+    *)
(* strings; the dotless i is the character "i_dotless").  An array is a    *)
(* sequence, an object is a record, the JavaScript value undefined is a    *)
(* missing record field.                                                   *)
(***************************************************************************)
EXTENDS Integers, Sequences, FiniteSets, TLC

VARIABLES
    build,     \* state of the buildIndex() promise
    listening, \* whether app.listen has been called
    dir,       \* what fs.readdirSync(__dirname) returns
    fileIdx,   \* buildIndex: position of the for-of loop in `files`
    chunks,    \* buildIndex: the local array `chunks`
    CHUNKS,    \* the process-wide index
    failed,    \* history: files of the running/last build whose decoding threw
    prevIndex, \* history: CHUNKS as it was when the running/last build started
    builds,    \* history: number of buildIndex calls so far
    inflight,  \* /chat handlers suspended at `await groq...create` (during:
               \* history, the state of the build when the handler read the index)
    out,       \* last output: a value returned by retrieveRelevantChunks, or an HTTP response
    pin,       \* input of the pure function under check (SpecScore, SpecChunk)
    pout       \* its result

vars == <<build, listening, dir, fileIdx, chunks, CHUNKS, failed, prevIndex, builds, inflight, out, pin, pout>>

-----------------------------------------------------------------------------
(* Bounds of the model *)

MaxTopK == 3
MaxInflight == 1
MaxBuilds == 2
MaxTokens == 3
MaxWords == 44
MaxWordsPerChunk == 23

-----------------------------------------------------------------------------
(* Strings *)

Range(s) == {s[i] : i \in DOMAIN s}

Min(a, b) == IF a < b THEN a ELSE b
Max(a, b) == IF a > b THEN a ELSE b

\* \s of a JavaScript regular expression, on the modelled alphabet
Whitespace == {" ", "\n", "\t"}

IsWhitespace(c) == c \in Whitespace

UpperCase == <<"A", "B", "C", "D", "E", "F", "G", "H", "I", "J", "K", "L", "M",
               "N", "O", "P", "Q", "R", "S", "T", "U", "V", "W", "X", "Y", "Z">>
LowerCase == <<"a", "b", "c", "d", "e", "f", "g", "h", "i", "j", "k", "l", "m",
               "n", "o", "p", "q", "r", "s", "t", "u", "v", "w", "x", "y", "z">>

UpperCaseLetters == Range(UpperCase)

\* String.prototype.toLowerCase, per character of the modelled alphabet
LowerChar(c) ==
    IF c \in UpperCaseLetters
    THEN LowerCase[CHOOSE k \in DOMAIN UpperCase : UpperCase[k] = c]
    ELSE c

toLowerCase(s) == [i \in 1..Len(s) |-> LowerChar(s[i])]

AsciiLetters == Range(LowerCase) \cup Range(UpperCase)
Digits == {"0", "1", "2", "3", "4", "5", "6", "7", "8", "9"}
TurkishLetters == {"i_dotless"}

\* the characters the class [^a-zA-Z0-9...\s] of tokenize does NOT match
TokenChars == AsciiLetters \cup Digits \cup TurkishLetters \cup Whitespace

IsTokenChar(c) == c \in TokenChars

\* text.replace(/\s+/g, " "): every maximal whitespace run becomes one space
ReplaceWhitespaceRuns(s) ==
    LET marked == [i \in 1..Len(s) |->
                      [c |-> s[i], first |-> i = 1 \/ ~IsWhitespace(s[i-1])]]
        Keep(m) == ~IsWhitespace(m.c) \/ m.first
        kept == SelectSeq(marked, Keep)
    IN  [i \in 1..Len(kept) |-> IF IsWhitespace(kept[i].c) THEN " " ELSE kept[i].c]

\* String.prototype.trim
trim(s) ==
    LET n == Len(s)
        IsFirst(i) == ~IsWhitespace(s[i]) /\ \A j \in 1..(i - 1) : IsWhitespace(s[j])
        IsLast(i) == ~IsWhitespace(s[i]) /\ \A j \in (i + 1)..n : IsWhitespace(s[j])
    IN  IF \A i \in 1..n : IsWhitespace(s[i]) THEN <<>>
        ELSE SubSeq(s, CHOOSE i \in 1..n : IsFirst(i), CHOOSE i \in 1..n : IsLast(i))

\* str.split(/\s+/): the fields between whitespace runs; a leading or trailing
\* run leaves an empty field at that end, and "" splits into [""]
SplitWhitespace(s) ==
    LET n == Len(s)
        idx == [i \in 1..n |-> i]
        IsStart(i) == ~IsWhitespace(s[i]) /\ (i = 1 \/ IsWhitespace(s[i-1]))
        IsEnd(i) == ~IsWhitespace(s[i]) /\ (i = n \/ IsWhitespace(s[i+1]))
        starts == SelectSeq(idx, IsStart)
        ends == SelectSeq(idx, IsEnd)
        fields == [k \in 1..Len(starts) |-> SubSeq(s, starts[k], ends[k])]
    IN  IF n = 0 THEN << <<>> >>
        ELSE (IF IsWhitespace(s[1]) THEN << <<>> >> ELSE <<>>)
             \o fields
             \o (IF IsWhitespace(s[n]) THEN << <<>> >> ELSE <<>>)

\* Array.prototype.join(" "); the concatenation is done by halves so that the
\* evaluation depth stays logarithmic in the number of words
RECURSIVE JoinRange(_, _, _)
JoinRange(words, lo, hi) ==
    IF lo > hi THEN <<>>
    ELSE IF lo = hi THEN words[lo]
    ELSE LET mid == (lo + hi) \div 2
         IN  JoinRange(words, lo, mid) \o <<" ">> \o JoinRange(words, mid + 1, hi)

Join(words) == JoinRange(words, 1, Len(words))

\* Array.prototype.slice(begin, end) with begin >= 0 (0-based, end exclusive;
\* a negative end counts from the end of the array)
Slice(arr, begin, end) ==
    LET n == Len(arr)
        e == IF end < 0 THEN Max(n + end, 0) ELSE Min(end, n)
    IN  IF begin >= e THEN <<>> ELSE SubSeq(arr, begin + 1, e)

\* Number -> decimal string, as the template literal `${idx}` prints it
RECURSIVE Decimal(_)
Decimal(n) ==
    LET d == <<"0", "1", "2", "3", "4", "5", "6", "7", "8", "9">>
    IN  IF n < 10 THEN <<d[n + 1]>> ELSE Decimal(n \div 10) \o <<d[(n % 10) + 1]>>

-----------------------------------------------------------------------------
(* Text Normalizer, Chunker, Tokenizer, scoring *)

normalizeText(text) == trim(ReplaceWhitespaceRuns(text))

MinChunkWords == 20
DefaultWordsPerChunk == 350

\* faulty variant of IsKept: the threshold test written >=
IsKeptFromTwenty(slice) == Len(slice) >= MinChunkWords

\* if (slice.length > 20)
IsKept(slice) == Len(slice) > MinChunkWords

\* the for loop of chunkText, from word offset i (0-based)
RECURSIVE ChunkLoop(_, _, _)
ChunkLoop(words, i, wordsPerChunk) ==
    IF i < Len(words)
    THEN LET slice == Slice(words, i, i + wordsPerChunk)
         IN  (IF IsKept(slice) THEN <<Join(slice)>> ELSE <<>>)
             \o ChunkLoop(words, i + wordsPerChunk, wordsPerChunk)
    ELSE <<>>

chunkText(text, wordsPerChunk) == ChunkLoop(SplitWhitespace(text), 0, wordsPerChunk)

MinTokenLength == 2

tokenize(str) ==
    LET lower == toLowerCase(str)
        replaced == [i \in 1..Len(lower) |->
                        IF IsTokenChar(lower[i]) THEN lower[i] ELSE " "]
        Longer(w) == Len(w) > MinTokenLength
    IN  SelectSeq(SplitWhitespace(replaced), Longer)

\* the for-of loop of scoreChunk over chunkTokens[lo..hi]; the running count is
\* summed by halves so that the evaluation depth stays logarithmic
RECURSIVE ScoreLoop(_, _, _, _)
ScoreLoop(setQ, chunkTokens, lo, hi) ==
    IF lo > hi THEN 0
    ELSE IF lo = hi THEN (IF chunkTokens[lo] \in setQ THEN 1 ELSE 0)
    ELSE LET mid == (lo + hi) \div 2
         IN  ScoreLoop(setQ, chunkTokens, lo, mid) + ScoreLoop(setQ, chunkTokens, mid + 1, hi)

\* faulty variant of scoreChunk: the loop runs over the set of chunk tokens
scoreChunkDistinct(questionTokens, chunkTokens) ==
    Cardinality(Range(chunkTokens) \cap Range(questionTokens))

scoreChunk(questionTokens, chunkTokens) ==
    ScoreLoop(Range(questionTokens), chunkTokens, 1, Len(chunkTokens))

-----------------------------------------------------------------------------
(* The file system the process runs in: names and raw contents *)

Str_txt == <<".", "t", "x", "t">>
Str_docx == <<".", "d", "o", "c", "x">>

File_a == <<"a">> \o Str_txt
File_b == <<"b">> \o Str_docx
File_big == <<"b", "i", "g">> \o Str_txt
File_c == <<"c", ".", "T", "X", "T">>
File_d == <<"d">> \o Str_txt
File_e == <<"e">> \o Str_txt
File_notes == <<"n", "o", "t", "e", "s", ".", "m", "d">>

W_sleep == <<"s", "l", "e", "e", "p">>
W_routine == <<"r", "o", "u", "t", "i", "n", "e">>
W_tips == <<"t", "i", "p", "s">>
W_of == <<"o", "f">>

\* n times the two-letter word "of", single-spaced
Filler(n) == Join([i \in 1..n |-> W_of])

\* "\n Sleep,  routine\t of ... of\n": 21 words, irregular whitespace
Content_a ==
    <<"\n", " ", "S", "l", "e", "e", "p", ",", " ", " ">> \o W_routine \o <<"\t">>
    \o Filler(19) \o <<"\n">>

\* "sleep sleep sleep of ... of": 23 words
Content_b == Join(<<W_sleep, W_sleep, W_sleep, Filler(20)>>)

\* "Routine tips! of ... of": 21 words
Content_c ==
    <<"R", "o", "u", "t", "i", "n", "e", " ">> \o W_tips \o <<"!", " ">> \o Filler(19)

\* 20 words: one window, too short to be kept
Content_d == Filler(20)

\* whitespace only
Content_e == <<" ", "\n", "\t">>

\* 371 words: "routine of ... of" (350 words) then "sleep routine of ... of" (21)
Content_big == Join(<<W_routine, Filler(349), W_sleep, W_routine, Filler(19)>>)

FileContent(file) ==
    CASE file = File_a -> Content_a
      [] file = File_b -> Content_b
      [] file = File_c -> Content_c
      [] file = File_d -> Content_d
      [] file = File_e -> Content_e
      [] file = File_big -> Content_big
      [] OTHER -> <<>>

\* directory listings (readdirSync returns each name once) of short files
SmallListings ==
    { <<>>,
      <<File_notes>>,
      <<File_a, File_b>>,
      <<File_d, File_c, File_e>>,
      <<File_a, File_notes, File_c>>,
      <<File_c, File_b, File_a>> }

\* the listings under which later builds are followed
RebuildListings == { <<File_a, File_b>>, <<File_d, File_c, File_e>> }

\* and with the file that is longer than one chunk
Listings == SmallListings \cup { <<File_big, File_b>>, <<File_a, File_big>> }

-----------------------------------------------------------------------------
(* Index Builder *)

\* path.extname: from the last "." of the name, unless the name has none or
\* starts with its only one
extname(file) ==
    LET dots == {i \in 1..Len(file) : file[i] = "."}
        last == CHOOSE i \in dots : \A j \in dots : j <= i
    IN  IF dots = {} THEN <<>>
        ELSE IF last = 1 THEN <<>>
        ELSE SubSeq(file, last, Len(file))

IsSupported(file) ==
    LET ext == toLowerCase(extname(file))
    IN  ext = Str_txt \/ ext = Str_docx

\* faulty variant of SourceOf: the ordinal is not the chunk's own
SourceWithoutOrdinal(file, idx) == file \o <<"#", "0">>

\* the template literal `${file}#${idx}`
SourceOf(file, idx) == file \o <<"#">> \o Decimal(idx)

\* what one loop iteration pushes for a file whose decoding returned `raw`
FileRecords(file, raw) ==
    LET text == normalizeText(raw)
        fileChunks == IF text = <<>> THEN <<>> ELSE chunkText(text, DefaultWordsPerChunk)
    IN  [k \in 1..Len(fileChunks) |->
            [text |-> fileChunks[k], source |-> SourceOf(file, k - 1)]]

\* the next position >= i of `files` holding a supported file, Len(files)+1 if none
NextSupported(files, i) ==
    LET rest == {j \in i..Len(files) : IsSupported(files[j])}
    IN  IF rest = {} THEN Len(files) + 1 ELSE CHOOSE j \in rest : \A k \in rest : j <= k

\* faulty variant of PublishedIndex: the loop pushes into the process-wide array
PublishedInPlace(index, acc, done) == acc

\* the process-wide index when buildIndex suspends or returns: `chunks` is a
\* local array, and the only write to CHUNKS is `CHUNKS = chunks` after the loop
PublishedIndex(index, acc, done) == IF done THEN acc ELSE index

\* faulty variant of AfterDecode: a failed decode discards what was collected
AfterDecodeDropsAll(acc, file, ok) ==
    IF ok THEN acc \o FileRecords(file, FileContent(file)) ELSE <<>>

\* the accumulator after the try block of one iteration
AfterDecode(acc, file, ok) ==
    IF ok THEN acc \o FileRecords(file, FileContent(file)) ELSE acc

\* buildIndex from its call to its first await, or to its end when no entry
\* of the directory is supported
BuildEnter ==
    LET first == NextSupported(dir, 1)
    IN  /\ builds' = builds + 1
        /\ prevIndex' = CHUNKS
        /\ failed' = {}
        /\ chunks' = <<>>
        /\ fileIdx' = first
        /\ CHUNKS' = PublishedIndex(CHUNKS, <<>>, first > Len(dir))
        /\ build' = IF first > Len(dir) THEN "resolved" ELSE "decoding"

\* buildIndex from the settling of the awaited decode to the next await, or to
\* `CHUNKS = chunks` when the loop ends
BuildResume(ok) ==
    LET file == dir[fileIdx]
        acc == AfterDecode(chunks, file, ok)
        next == NextSupported(dir, fileIdx + 1)
    IN  /\ build = "decoding"
        /\ failed' = IF ok THEN failed ELSE failed \cup {file}
        /\ chunks' = acc
        /\ fileIdx' = next
        /\ CHUNKS' = PublishedIndex(CHUNKS, acc, next > Len(dir))
        /\ build' = IF next > Len(dir) THEN "resolved" ELSE "decoding"
        /\ UNCHANGED <<prevIndex, builds>>

\* start-up: the call buildIndex() of the last statement of the script
Startup ==
    /\ build = "notStarted"
    /\ BuildEnter
    /\ UNCHANGED <<listening, dir, inflight, out, pin, pout>>

\* start-up: fs.readdirSync throws, the promise rejects, nothing listens
ReaddirThrows ==
    /\ build = "notStarted"
    /\ build' = "rejected"
    /\ builds' = builds + 1
    /\ UNCHANGED <<listening, dir, fileIdx, chunks, CHUNKS, failed, prevIndex,
                   inflight, out, pin, pout>>

DecodeReturns ==
    /\ BuildResume(TRUE)
    /\ UNCHANGED <<listening, dir, inflight, out, pin, pout>>

DecodeThrows ==
    /\ BuildResume(FALSE)
    /\ UNCHANGED <<listening, dir, inflight, out, pin, pout>>

\* faulty variant of MayListen: app.listen is not chained on the build
MayListenBeforeBuild == ~listening

\* when the .then callback of the start-up chain may run
MayListen == build = "resolved" /\ ~listening

Listen ==
    /\ MayListen
    /\ listening' = TRUE
    /\ UNCHANGED <<build, dir, fileIdx, chunks, CHUNKS, failed, prevIndex, builds,
                   inflight, out, pin, pout>>

-----------------------------------------------------------------------------
(* Retriever *)

\* CHUNKS.map((ch) => ({ ...ch, score: ... }))
ScoreAll(index, question) ==
    LET qTokens == tokenize(question)
    IN  [i \in 1..Len(index) |->
            [text |-> index[i].text,
             source |-> index[i].source,
             score |-> scoreChunk(qTokens, tokenize(index[i].text))]]

\* the comparator (a, b) => b.score - a.score
Compare(a, b) == b.score - a.score

\* faulty variant of InsertSorted: x goes before the elements that compare equal
InsertSortedUnstable(sorted, x) ==
    LET after == {i \in 1..Len(sorted) : Compare(sorted[i], x) >= 0}
        pos == IF after = {} THEN Len(sorted) + 1
               ELSE CHOOSE i \in after : \A j \in after : i <= j
    IN  SubSeq(sorted, 1, pos - 1) \o <<x>> \o SubSeq(sorted, pos, Len(sorted))

\* Array.prototype.sort is stable: x goes behind every element that does not
\* have to come after it
InsertSorted(sorted, x) ==
    LET after == {i \in 1..Len(sorted) : Compare(sorted[i], x) > 0}
        pos == IF after = {} THEN Len(sorted) + 1
               ELSE CHOOSE i \in after : \A j \in after : i <= j
    IN  SubSeq(sorted, 1, pos - 1) \o <<x>> \o SubSeq(sorted, pos, Len(sorted))

RECURSIVE SortPrefix(_, _)
SortPrefix(arr, n) == IF n = 0 THEN <<>> ELSE InsertSorted(SortPrefix(arr, n - 1), arr[n])

sort(arr) == SortPrefix(arr, Len(arr))

\* faulty variant of TopScoreIsZero: a missing top element counts as score 0
TopScoreIsZeroOrMissing(scored) == Len(scored) = 0 \/ scored[1].score = 0

\* scored[0]?.score === 0
TopScoreIsZero(scored) == Len(scored) > 0 /\ scored[1].score = 0

\* faulty variant of IndexAfterQuery: the scores are added and sorted in place
IndexSortedInPlace(index, scored) == scored

\* the process-wide index after a query: map builds a new array of new
\* objects and sort reorders that array, so the index is what it was
IndexAfterQuery(index, scored) == index

\* ret: the value returned; branch: which return statement returned it;
\* index: the process-wide index afterwards
retrieveRelevantChunks(index, question, topK) ==
    LET scored == sort(ScoreAll(index, question))
    IN  IF TopScoreIsZero(scored)
        THEN [ret |-> Slice(index, 0, topK), branch |-> "fallback",
              index |-> IndexAfterQuery(index, scored)]
        ELSE [ret |-> Slice(scored, 0, topK), branch |-> "sorted",
              index |-> IndexAfterQuery(index, scored)]

-----------------------------------------------------------------------------
(* Language Detector and the /chat handler *)

trChars == {"i_dotless"}

detectLanguage(text) == IF \E i \in 1..Len(text) : text[i] \in trChars THEN "tr" ELSE "en"

ChatTopK == 4

Q_sleep == Join(<<W_sleep, W_routine, W_tips>>)
Q_routine == <<" ", "R", "o", "u", "t", "i", "n", "e", "?">>
Q_none == <<"\n", "n", "a", "s", "i_dotless", "l", " ", "o", "f">>
Q_blank == <<" ", " ">>

\* the questions asked by direct calls
Questions == {Q_sleep, Q_routine, Q_none, Q_blank}

\* the question fields of the request bodies
Bodies == {Q_sleep, Q_none, Q_blank}

\* one entry of used_chunks as res.json sends it: JSON has no undefined, a
\* property holding it is left out
UsedChunk(r) ==
    IF "score" \in DOMAIN r
    THEN [source |-> r.source, score |-> r.score]
    ELSE [source |-> r.source]

\* POST /chat with an empty question: 400
ChatRejects(raw) ==
    /\ listening
    /\ trim(raw) = <<>>
    /\ out' = [kind |-> "response", status |-> 400]
    /\ UNCHANGED <<build, listening, dir, fileIdx, chunks, CHUNKS, failed, prevIndex,
                   builds, inflight, pin, pout>>

\* POST /chat up to `await groq.chat.completions.create`
ChatAsks(raw) ==
    LET question == trim(raw)
        r == retrieveRelevantChunks(CHUNKS, question, ChatTopK)
    IN  /\ listening
        /\ question # <<>>
        /\ Len(inflight) < MaxInflight
        /\ inflight' = Append(inflight, [question |-> question,
                                         lang |-> detectLanguage(question),
                                         relevant |-> r.ret,
                                         during |-> build])
        /\ CHUNKS' = r.index
        /\ UNCHANGED <<build, listening, dir, fileIdx, chunks, failed, prevIndex,
                       builds, out, pin, pout>>

Without(seq, i) == SubSeq(seq, 1, i - 1) \o SubSeq(seq, i + 1, Len(seq))

\* the completion arrives: res.json({ answer, language, used_chunks })
ChatAnswers(i) ==
    /\ i \in 1..Len(inflight)
    /\ out' = [kind |-> "response", status |-> 200,
               question |-> inflight[i].question,
               language |-> inflight[i].lang,
               used_chunks |-> [k \in 1..Len(inflight[i].relevant) |->
                                   UsedChunk(inflight[i].relevant[k])]]
    /\ inflight' = Without(inflight, i)
    /\ UNCHANGED <<build, listening, dir, fileIdx, chunks, CHUNKS, failed, prevIndex,
                   builds, pin, pout>>

\* the completion call throws: the catch block answers 500
ChatFails(i) ==
    /\ i \in 1..Len(inflight)
    /\ out' = [kind |-> "response", status |-> 500]
    /\ inflight' = Without(inflight, i)
    /\ UNCHANGED <<build, listening, dir, fileIdx, chunks, CHUNKS, failed, prevIndex,
                   builds, pin, pout>>

\* a call retrieveRelevantChunks(question, topK) once the build has completed
RetrieveCall(question, topK) ==
    LET r == retrieveRelevantChunks(CHUNKS, question, topK)
    IN  /\ build = "resolved"
        /\ out' = [kind |-> "retrieved", question |-> question, topK |-> topK,
                   ret |-> r.ret, branch |-> r.branch]
        /\ CHUNKS' = r.index
        /\ UNCHANGED <<build, listening, dir, fileIdx, chunks, failed, prevIndex,
                       builds, inflight, pin, pout>>

\* a later call of buildIndex() while the server runs
Rebuild ==
    /\ listening
    /\ build = "resolved"
    /\ builds < MaxBuilds
    /\ BuildEnter
    /\ UNCHANGED <<listening, dir, inflight, out, pin, pout>>

-----------------------------------------------------------------------------
(* Specifications *)

NoOutput == [kind |-> "none"]

ProgramInit(listings) ==
    /\ build = "notStarted"
    /\ listening = FALSE
    /\ dir \in listings
    /\ fileIdx = 0
    /\ chunks = <<>>
    /\ CHUNKS = <<>>
    /\ failed = {}
    /\ prevIndex = <<>>
    /\ builds = 0
    /\ inflight = <<>>
    /\ out = NoOutput

InitWith(listings) ==
    /\ ProgramInit(listings)
    /\ pin = <<>>
    /\ pout = <<>>

Init == InitWith(Listings)

Serve ==
    \/ \E raw \in Bodies : ChatRejects(raw)
    \/ \E raw \in Bodies : ChatAsks(raw)
    \/ \E i \in 1..MaxInflight : ChatAnswers(i)
    \/ \E i \in 1..MaxInflight : ChatFails(i)

\* the program as written
Next ==
    \/ Startup
    \/ ReaddirThrows
    \/ DecodeReturns
    \/ DecodeThrows
    \/ Listen
    \/ Serve

Spec == Init /\ [][Next]_vars

\* the program, and direct calls of the retriever with any topK
NextQueries ==
    \/ Next
    \/ \E question \in Questions, topK \in 0..MaxTopK : RetrieveCall(question, topK)

SpecQueries == InitWith(SmallListings) /\ [][NextQueries]_vars

\* the program, and later calls of buildIndex while requests are served
NextRebuild ==
    \/ Next
    \/ Rebuild

SpecRebuild == InitWith(RebuildListings) /\ [][NextRebuild]_vars

-----------------------------------------------------------------------------
(* scoreChunk on its own: every pair of token arrays up to MaxTokens tokens *)

ScoreTokens == {W_sleep, W_routine, W_tips}

TokenArrays == UNION {[1..k -> ScoreTokens] : k \in 0..MaxTokens}

programVars == <<build, listening, dir, fileIdx, chunks, CHUNKS, failed, prevIndex,
                 builds, inflight, out>>

InitScore ==
    /\ ProgramInit({<<>>})
    /\ pin \in [q : TokenArrays, c : TokenArrays]
    /\ pout = [op |-> "none"]

Scored(op, prev) ==
    [op |-> op, score |-> scoreChunk(pin'.q, pin'.c), prev |-> prev]

ScoreOnce ==
    /\ pout.op = "none"
    /\ pin' = pin
    /\ pout' = Scored("score", 0)
    /\ UNCHANGED programVars

\* the same call with a token of the question repeated in the question
ScoreRepeatedInQuestion(t) ==
    /\ pout.op = "score"
    /\ t \in Range(pin.q)
    /\ pin' = [pin EXCEPT !.q = Append(pin.q, t)]
    /\ pout' = Scored("repeatedInQuestion", pout.score)
    /\ UNCHANGED programVars

\* the same call with a matching token repeated in the chunk
ScoreRepeatedInChunk(t) ==
    /\ pout.op = "score"
    /\ t \in Range(pin.q) \cap Range(pin.c)
    /\ pin' = [pin EXCEPT !.c = Append(pin.c, t)]
    /\ pout' = Scored("repeatedInChunk", pout.score)
    /\ UNCHANGED programVars

NextScore ==
    \/ ScoreOnce
    \/ \E t \in ScoreTokens : ScoreRepeatedInQuestion(t)
    \/ \E t \in ScoreTokens : ScoreRepeatedInChunk(t)

SpecScore == InitScore /\ [][NextScore]_vars

-----------------------------------------------------------------------------
(* chunkText on its own: single-spaced texts of n distinct three-digit words *)

Numeral(i) ==
    LET d == <<"0", "1", "2", "3", "4", "5", "6", "7", "8", "9">>
    IN  <<d[((i \div 100) % 10) + 1], d[((i \div 10) % 10) + 1], d[(i % 10) + 1]>>

NumberedText(n) == Join([i \in 1..n |-> Numeral(i)])

\* Scenario 1 of the specification: 720 and 721 words with the default size
ScenarioInputs ==
    {[n |-> 2 * DefaultWordsPerChunk + MinChunkWords, w |-> DefaultWordsPerChunk],
     [n |-> 2 * DefaultWordsPerChunk + MinChunkWords + 1, w |-> DefaultWordsPerChunk]}

InitChunk ==
    /\ ProgramInit({<<>>})
    /\ pin \in [n : 0..MaxWords, w : 1..MaxWordsPerChunk] \cup ScenarioInputs
    /\ pout = [done |-> FALSE]

ChunkOnce ==
    /\ ~pout.done
    /\ pin' = pin
    /\ pout' = [done |-> TRUE, chunks |-> chunkText(NumberedText(pin.n), pin.w)]
    /\ UNCHANGED programVars

NextChunk == ChunkOnce

SpecChunk == InitChunk /\ [][NextChunk]_vars

-----------------------------------------------------------------------------
(* Properties *)

\* number of positions of the text's token sequence holding a question token
OverlapScore(question, text) ==
    LET setQ == Range(tokenize(question))
        t == tokenize(text)
    IN  Cardinality({p \in DOMAIN t : t[p] \in setQ})

\* the chunks one file contributes: its windows with "<name>#<ordinal>"
ExpectedChunksOf(file) ==
    LET texts == chunkText(normalizeText(FileContent(file)), DefaultWordsPerChunk)
    IN  [k \in 1..Len(texts) |->
            [text |-> texts[k], source |-> file \o <<"#">> \o Decimal(k - 1)]]

RECURSIVE ConcatChunksOf(_)
ConcatChunksOf(files) ==
    IF files = <<>> THEN <<>>
    ELSE ExpectedChunksOf(Head(files)) \o ConcatChunksOf(Tail(files))

\* the index of a build over `listing` in which exactly `failedSet` failed
ExpectedIndex(listing, failedSet) ==
    LET Contributes(f) == IsSupported(f) /\ f \notin failedSet
    IN  ConcatChunksOf(SelectSeq(listing, Contributes))

\* C1 (as claimed): when no chunk of a non-empty index shares a token with the
\* question, retrieveRelevantChunks returns the first topK index entries in
\* index order and each returned entry carries a score field equal to 0.
C1_FallbackLaw ==
    ( /\ out.kind = "retrieved"
      /\ CHUNKS # <<>>
      /\ \A i \in 1..Len(CHUNKS) : OverlapScore(out.question, CHUNKS[i].text) = 0 )
    => /\ Len(out.ret) = Min(out.topK, Len(CHUNKS))
       /\ \A i \in 1..Len(out.ret) :
            /\ out.ret[i].text = CHUNKS[i].text
            /\ out.ret[i].source = CHUNKS[i].source
            /\ "score" \in DOMAIN out.ret[i]
            /\ out.ret[i].score = 0

\* C2: buildIndex is called at most once; whenever the server listens, or a
\* /chat handler has read the index or answered, that one build has run to
\* completion and assigned the index, and every read of the index by a
\* handler happened after the build resolved.
C2_StartupOrdering ==
    /\ builds <= 1
    /\ (listening \/ inflight # <<>> \/ out.kind = "response")
         => (build = "resolved" /\ builds = 1 /\ CHUNKS = chunks)
    /\ \A i \in 1..Len(inflight) : inflight[i].during = "resolved"

C2_Witness == listening /\ inflight # <<>> /\ CHUNKS # <<>> /\ failed # {}

\* C3: while a build is suspended at a decode the process-wide index is the
\* complete previous index, and once the build has returned it is exactly the
\* new build's index, whatever the previous index held.
C3_AtomicReplacement ==
    /\ build = "decoding" => CHUNKS = prevIndex
    /\ build = "resolved" => CHUNKS = ExpectedIndex(dir, failed)

C3_Witness ==
    /\ listening
    /\ build = "decoding"
    /\ prevIndex # <<>>
    /\ chunks # <<>>
    /\ chunks # prevIndex
    /\ \E i \in 1..Len(inflight) : inflight[i].during = "decoding"

\* C4: when some chunk scores more than 0, retrieveRelevantChunks returns the
\* first min(topK, index length) entries of the index ordered by score
\* descending, chunks of equal score in index order, each with its score.
C4_RankingOrder ==
    LET n == Len(CHUNKS)
        S == [i \in 1..n |-> OverlapScore(out.question, CHUNKS[i].text)]
        Rank(i) == 1 + Cardinality({j \in 1..n : S[j] > S[i] \/ (S[j] = S[i] /\ j < i)})
    IN  (out.kind = "retrieved" /\ \E i \in 1..n : S[i] > 0)
        => /\ Len(out.ret) = Min(out.topK, n)
           /\ \A k \in 1..Len(out.ret) :
                \E i \in 1..n :
                    /\ Rank(i) = k
                    /\ out.ret[k] = [text |-> CHUNKS[i].text,
                                     source |-> CHUNKS[i].source,
                                     score |-> S[i]]

C4_Witness ==
    /\ out.kind = "retrieved"
    /\ Len(out.ret) = 3
    /\ out.ret[1].source # CHUNKS[1].source
    /\ out.ret[1].score > out.ret[2].score
    /\ out.ret[2].score = out.ret[3].score
    /\ out.ret[3].score > 0

\* C5: the score is the number of positions of the chunk's token sequence
\* whose token is in the question's token set; repeating a question token in
\* the question leaves it unchanged, repeating a matching token in the chunk
\* raises it by one.
C5_Scoring ==
    pout.op # "none"
    => /\ pout.score = Cardinality({p \in DOMAIN pin.c : pin.c[p] \in Range(pin.q)})
       /\ pout.op = "repeatedInQuestion" => pout.score = pout.prev
       /\ pout.op = "repeatedInChunk" => pout.score = pout.prev + 1

C5_Witness ==
    /\ pout.op = "repeatedInChunk"
    /\ pout.prev >= 2
    /\ Len(pin.q) > Cardinality(Range(pin.q))

\* word w of NumberedText(n) is characters 4w-3 .. 4w-1
WordsIn(chunk) == (Len(chunk) + 1) \div 4

\* C6: chunkText returns, in order, the consecutive non-overlapping windows
\* of wordsPerChunk words (the last one possibly shorter) that hold more than
\* 20 words; every chunk has more than 20 and at most wordsPerChunk words.
C6_Chunker ==
    LET n == pin.n
        w == pin.w
        text == NumberedText(n)
        windows == [k \in 1..((n + w - 1) \div w) |->
                       [first |-> (k - 1) * w + 1, last |-> Min(k * w, n)]]
        Long(win) == win.last - win.first + 1 > MinChunkWords
        kept == SelectSeq(windows, Long)
    IN  pout.done
        => /\ Len(pout.chunks) = Len(kept)
           /\ \A j \in 1..Len(kept) :
                /\ pout.chunks[j] = SubSeq(text, 4 * kept[j].first - 3, 4 * kept[j].last - 1)
                /\ WordsIn(pout.chunks[j]) > MinChunkWords
                /\ WordsIn(pout.chunks[j]) <= w

C6_Witness ==
    /\ pout.done
    /\ pin.w <= MaxWordsPerChunk
    /\ Len(pout.chunks) = 2
    /\ WordsIn(pout.chunks[2]) = MinChunkWords + 1

\* C7: after a build the source values of the index are pairwise distinct,
\* and each is "<filename>#<i>" for a file of the directory whose i-th chunk
\* (0-based) is the chunk's text.
C7_SourceUniqueness ==
    build = "resolved"
    => /\ \A i, j \in 1..Len(CHUNKS) : i # j => CHUNKS[i].source # CHUNKS[j].source
       /\ \A i \in 1..Len(CHUNKS) :
            \E d \in 1..Len(dir) :
                LET texts == chunkText(normalizeText(FileContent(dir[d])),
                                       DefaultWordsPerChunk)
                IN  \E k \in 1..Len(texts) :
                        /\ CHUNKS[i].source = dir[d] \o <<"#">> \o Decimal(k - 1)
                        /\ CHUNKS[i].text = texts[k]

C7_Witness ==
    /\ build = "resolved"
    /\ Len(CHUNKS) = 3
    /\ CHUNKS[2].source = File_big \o <<"#", "0">>
    /\ CHUNKS[3].source = File_big \o <<"#", "1">>

\* C8: a failed decode never stops the build, and the index of a completed
\* build is the concatenation, in listing order, of the chunks of the
\* supported files whose decode succeeded.
C8_DecodeFailureIsolation ==
    /\ failed # {} => build \in {"decoding", "resolved"}
    /\ build = "resolved" => CHUNKS = ExpectedIndex(dir, failed)

C8_Witness ==
    /\ build = "resolved"
    /\ dir = <<File_c, File_b, File_a>>
    /\ failed = {File_b}
    /\ Len(CHUNKS) = 2

\* C9: on an empty index retrieveRelevantChunks returns the empty sequence
\* through the ordinary return, not the fallback one, and /chat answers with
\* no used chunks.
C9_EmptyIndex ==
    CHUNKS = <<>>
    => /\ out.kind = "retrieved" => (out.ret = <<>> /\ out.branch = "sorted")
       /\ (out.kind = "response" /\ out.status = 200) => out.used_chunks = <<>>

C9_Witness ==
    /\ build = "resolved"
    /\ CHUNKS = <<>>
    /\ out.kind = "retrieved"
    /\ out.topK > 0
    /\ tokenize(out.question) # <<>>

\* C10: once the build has completed, no step (a direct call, a /chat
\* request, its completion) changes the process-wide index.
C10_ReadOnlyIndex == [][build = "resolved" => CHUNKS' = CHUNKS]_vars

C10_Witness ==
    /\ build = "resolved"
    /\ inflight # <<>>
    /\ out.kind = "retrieved"
    /\ out.branch = "sorted"
    /\ Len(out.ret) >= 2
    /\ out.ret[1].source # CHUNKS[1].source

=============================================================================
